---- MODULE Spec2Model ----
(***************************************************************************)
(* Model of package config (src/config/config.go): the global snapshot    *)
(* store (Mutex, _config, _jwtAlgo, _debugViaFlag), Configuration's        *)
(* WriteToDisk, EnsurePterodactylUser / setSystemUser, and                  *)
(* EnsureFilePermissions with the goroutines it starts.                    *)
(*                                                                         *)
(* Every goroutine is a thread with a program counter; one action is one   *)
(* statement, or a run of statements no other goroutine can tell apart     *)
(* from one (the action's comment names the lines).                        *)
(***************************************************************************)
EXTENDS Naturals, Integers, Sequences, FiniteSets, TLC

\* ---------------------------------------------------------------- bounds

\* Number of calls of Set, SetDebugViaFlag, WriteToDisk and
\* EnsurePterodactylUser the goroutines issue in one run.
MaxCalls == 2

\* Number of calls of Get and GetJwtAlgorithm the goroutines issue in one run.
MaxReads == 2

\* Number of write(2) system calls ioutil.WriteFile needs for one document.
DocParts == 2

\* Number of entries the data directory holds at most.
MaxEntries == 4

\* ------------------------------------------------------------- constants

Threads == {"t1", "t2"}

\* Configuration objects that exist in the process (results of
\* ReadConfiguration / new(Configuration)).
Snaps == {"A", "B", "C"}

nil == "nil"
None == "none"

DefaultLocation == "/etc/pterodactyl/config.yml"

\* The account the operating system hands out for the configured name
\* (a *user.User: Uid and Gid are decimal strings).
OsAccount == [Username |-> "pterodactyl", Uid |-> "999", Gid |-> "998"]

\* Zero values: a nil *user.User, a nil *jwt.HMACSHA, a zero Configuration.
NoUser == [Username |-> "", Uid |-> "", Gid |-> ""]
NilAlgo == [key |-> "", ptr |-> 0]
ZeroConf == [path |-> "", Debug |-> FALSE, AuthenticationToken |-> "",
             Username |-> "", Uid |-> 0, Gid |-> 0]

\* Field values of the Configuration objects when they are constructed.
\* A and B were loaded from the same file (same path, same token), C was
\* built without a path and carries another token.
InitConf(s) ==
    CASE s = "A" -> [path |-> DefaultLocation, Debug |-> TRUE,
                     AuthenticationToken |-> "tokA",
                     Username |-> "pterodactyl", Uid |-> 0, Gid |-> 0]
      [] s = "B" -> [path |-> DefaultLocation, Debug |-> FALSE,
                     AuthenticationToken |-> "tokA",
                     Username |-> "pterodactyl", Uid |-> 0, Gid |-> 0]
      [] OTHER   -> [path |-> "", Debug |-> TRUE,
                     AuthenticationToken |-> "tokB",
                     Username |-> "pterodactyl", Uid |-> 0, Gid |-> 0]

\* What may exist below the data directory c.System.Data: the immediate
\* children, and one directory inside the server directory srvA.
Children == {"srvA", "srvB", "file", "upper", "v1", "plain"}
Entries == Children \cup {"nested"}

\* f.Name() of every entry, as its sequence of characters.
Name(e) ==
    CASE e = "srvA" ->
           <<"d", "3", "a", "a", "c", "1", "0", "9", "-",
             "e", "5", "e", "0", "-", "4", "3", "3", "1",
             "-", "b", "0", "3", "e", "-", "3", "4", "5",
             "4", "f", "7", "e", "1", "3", "6", "d", "c">>
      [] e = "srvB" ->
           <<"0", "e", "4", "0", "5", "9", "c", "a", "-",
             "d", "7", "9", "b", "-", "4", "6", "a", "5",
             "-", "8", "e", "c", "4", "-", "9", "5", "b",
             "d", "0", "7", "3", "6", "d", "1", "5", "0">>
      [] e = "file" ->
           <<"8", "f", "0", "c", "9", "e", "2", "1", "-",
             "7", "a", "4", "b", "-", "4", "c", "1", "d",
             "-", "9", "b", "2", "e", "-", "5", "d", "6",
             "f", "7", "a", "8", "b", "9", "c", "0", "d">>
      [] e = "upper" ->
           <<"D", "3", "A", "A", "C", "1", "0", "9", "-",
             "E", "5", "E", "0", "-", "4", "3", "3", "1",
             "-", "B", "0", "3", "E", "-", "3", "4", "5",
             "4", "F", "7", "E", "1", "3", "6", "D", "C">>
      [] e = "v1" ->
           <<"6", "b", "a", "7", "b", "8", "1", "0", "-",
             "9", "d", "a", "d", "-", "1", "1", "d", "1",
             "-", "8", "0", "b", "4", "-", "0", "0", "c",
             "0", "4", "f", "d", "4", "3", "0", "c", "8">>
      [] e = "nested" ->
           <<"1", "c", "2", "d", "3", "e", "4", "f", "-",
             "5", "a", "6", "b", "-", "4", "c", "7", "d",
             "-", "8", "e", "9", "f", "-", "0", "a", "1",
             "b", "2", "c", "3", "d", "4", "e", "5", "f">>
      [] OTHER ->
           <<".", "s", "f", "t", "p">>

\* f.IsDir(): everything but "file" is a directory.
IsDir(e) == e # "file"

\* The entries in the order of their names (ioutil.ReadDir sorts by name).
ByName == <<"plain", "srvB", "v1", "file", "upper", "srvA">>

\* Owner of an entry nobody has changed: uid 0, gid 0.
Root == <<0, 0>>

\* ----------------------------------------------------------------- state

VARIABLES
    \* package-level state
    Mutex,          \* sync.RWMutex: [w |-> writer or None, r |-> set of readers]
    _config,        \* *Configuration: a member of Snaps, or nil
    _jwtAlgo,       \* *jwt.HMACSHA: NilAlgo, or [key, ptr]
    _debugViaFlag,  \* bool
    \* Configuration objects
    conf,           \* fields of every Configuration object
    rwLock,         \* the embedded sync.RWMutex of every object (holder or None)
    writeLock,      \* the writeLock of every object (holder or None)
    \* environment
    file,           \* content of the file at DefaultLocation
    osUser,         \* whether the account of the configured name exists
    osGroup,        \* whether the group of that name exists
    \* goroutines
    pc,             \* position of every goroutine
    c,              \* the Configuration a call works on
    ret,            \* the *Configuration Get returns
    retAlgo,        \* the *jwt.HMACSHA GetJwtAlgorithm returns
    err,            \* error a call returns
    ccopy,          \* WriteToDisk's local ccopy
    b,              \* WriteToDisk's local b (the marshalled document)
    off,            \* number of parts WriteFile has written
    caller,         \* who called WriteToDisk: "direct" or "setSystemUser"
    u,              \* the *user.User a lookup returned
    sysName,        \* EnsurePterodactylUser's local sysName
    \* bookkeeping
    calls,          \* number of writing calls issued so far
    reads,          \* number of reading calls issued so far
    nextPtr,        \* next address jwt.NewHS256 allocates
    published,      \* the Configuration objects Set has published, in order
    \* EnsureFilePermissions
    setPermissionsOnBoot,  \* c.System.SetPermissionsOnBoot
    dataDir,        \* the entries that exist below c.System.Data
    owner,          \* uid and gid of every entry
    efp,            \* position of the goroutine that calls EnsureFilePermissions
    files,          \* its local files
    idx,            \* number of entries its loop has gone through
    su,             \* its local su
    wg,             \* the counter of its sync.WaitGroup
    task,           \* position of the goroutine started for every entry
    efpErr,         \* the error EnsureFilePermissions returns
    warned          \* entries named in a "failed to chown" warning

store == <<Mutex, _config, _jwtAlgo, published, nextPtr>>
objects == <<conf, rwLock, writeLock>>
env == <<file, osUser, osGroup>>
wtdLocals == <<ccopy, b, off, caller>>
locals == <<c, ret, retAlgo, err, ccopy, b, off, caller, u, sysName>>
perm == <<setPermissionsOnBoot, dataDir, owner, efp, files, idx, su, wg, task,
          efpErr, warned>>
process == <<Mutex, _config, _jwtAlgo, _debugViaFlag, conf, rwLock, writeLock,
             file, osUser, osGroup, pc, c, ret, retAlgo, err, ccopy, b, off,
             caller, u, sysName, calls, reads, nextPtr, published>>
vars == <<process, perm>>

\* --------------------------------------------------------- pure functions

\* jwt.NewHS256([]byte(token)): a freshly allocated HMAC-SHA256 algorithm
\* whose key is the token's bytes.
NewHS256(token, ptr) == [key |-> token, ptr |-> ptr]

\* yaml.Marshal(&ccopy): the exported fields; path and the locks are
\* unexported or tagged "-" and do not appear in the document.
Marshal(cc) == [debug |-> cc.Debug, token |-> cc.AuthenticationToken,
                username |-> cc.Username, uid |-> cc.Uid, gid |-> cc.Gid]

\* The document as the sequence of parts WriteFile hands to write(2).
Bytes(doc) == [i \in 1..DocParts |-> [i |-> i, doc |-> doc]]

Hole == [i |-> 0, doc |-> Marshal(ZeroConf)]

\* write(2) of one part at position k of a file opened without O_APPEND:
\* positions the file does not have yet are filled with a hole.
WriteAt(f, k, part) ==
    [i \in 1..(IF k > Len(f) THEN k ELSE Len(f)) |->
        IF i = k THEN part ELSE IF i <= Len(f) THEN f[i] ELSE Hole]

\* strconv.Atoi with its error dropped: 0 for anything that is no number.
Atoi(s) ==
    CASE s = "999" -> 999
      [] s = "998" -> 998
      [] OTHER -> 0

Hex == {"0", "1", "2", "3", "4", "5", "6", "7", "8", "9",
        "a", "b", "c", "d", "e", "f"}

\* A pattern that accepts every version digit.
MatchStringAnyVersion(n) ==
    /\ Len(n) = 36
    /\ \A i \in 1..Len(n) :
          CASE i \in {9, 14, 19, 24} -> n[i] = "-"
            [] i = 20 -> n[i] \in {"8", "9", "a", "b"}
            [] OTHER -> n[i] \in Hex

\* line 269, r.MatchString(name) for the pattern
\* ^[a-f0-9]{8}-[a-f0-9]{4}-4[a-f0-9]{3}-[89ab][a-f0-9]{3}-[a-f0-9]{12}$
MatchString(n) ==
    /\ Len(n) = 36
    /\ \A i \in 1..Len(n) :
          CASE i \in {9, 14, 19, 24} -> n[i] = "-"
            [] i = 15 -> n[i] = "4"
            [] i = 20 -> n[i] \in {"8", "9", "a", "b"}
            [] OTHER -> n[i] \in Hex

\* ioutil.ReadDir(c.System.Data): the immediate children that exist, sorted
\* by name.
ReadDir(d) == SelectSeq(ByName, LAMBDA e : e \in d)

\* ------------------------------------------------------------------ Init

\* The package and its Configuration objects after construction, no call
\* issued yet.
InitProcess ==
    /\ Mutex = [w |-> None, r |-> {}]
    /\ _config = nil
    /\ _jwtAlgo = NilAlgo
    /\ _debugViaFlag = FALSE
    /\ conf = [s \in Snaps |-> InitConf(s)]
    /\ rwLock = [s \in Snaps |-> None]
    /\ writeLock = [s \in Snaps |-> None]
    /\ file = Bytes(Marshal(InitConf("A")))
    /\ pc = [t \in Threads |-> "idle"]
    /\ c = [t \in Threads |-> nil]
    /\ ret = [t \in Threads |-> nil]
    /\ retAlgo = [t \in Threads |-> NilAlgo]
    /\ err = [t \in Threads |-> nil]
    /\ ccopy = [t \in Threads |-> ZeroConf]
    /\ b = [t \in Threads |-> <<>>]
    /\ off = [t \in Threads |-> 0]
    /\ caller = [t \in Threads |-> None]
    /\ u = [t \in Threads |-> NoUser]
    /\ sysName = [t \in Threads |-> ""]
    /\ calls = 0
    /\ reads = 0
    /\ nextPtr = 1
    /\ published = <<>>

\* No call of EnsureFilePermissions issued yet, on the data directory d.
InitPerm(enabled, d) ==
    /\ setPermissionsOnBoot = enabled
    /\ dataDir = d
    /\ owner = [e \in Entries |-> Root]
    /\ efp = "idle"
    /\ files = <<>>
    /\ idx = 0
    /\ su = NoUser
    /\ wg = 0
    /\ task = [e \in Children |-> "none"]
    /\ efpErr = nil
    /\ warned = {}

\* The account does not exist yet and the data directory is empty.
Init ==
    /\ InitProcess
    /\ osUser = FALSE
    /\ osGroup = FALSE
    /\ InitPerm(FALSE, {})

\* A goroutine issues a call: it moves to the call's first statement.
Call(t, to, cfg) ==
    /\ pc[t] = "idle"
    /\ calls < MaxCalls
    /\ calls' = calls + 1
    /\ pc' = [pc EXCEPT ![t] = to]
    /\ c' = [c EXCEPT ![t] = cfg]
    /\ UNCHANGED reads

\* A goroutine issues a call of one of the two readers of the store.
CallReader(t, to) ==
    /\ pc[t] = "idle"
    /\ reads < MaxReads
    /\ reads' = reads + 1
    /\ pc' = [pc EXCEPT ![t] = to]
    /\ UNCHANGED <<c, calls>>

\* A call returns: its frame is gone and the goroutine is idle again.
Return(t, from) ==
    /\ pc[t] = from
    /\ pc' = [pc EXCEPT ![t] = "idle"]
    /\ c' = [c EXCEPT ![t] = nil]
    /\ ret' = [ret EXCEPT ![t] = nil]
    /\ retAlgo' = [retAlgo EXCEPT ![t] = NilAlgo]
    /\ err' = [err EXCEPT ![t] = nil]

\* ------------------------------------------------------ sync.RWMutex (151)

\* Mutex.Lock(), first half: the writer announces itself. From here on new
\* readers block; other writers block until Unlock.
MutexLockEnabled == Mutex.w = None

\* Mutex.Lock(), second half: the writer proceeds once the readers that were
\* inside have left.
MutexLockedEnabled(t) == Mutex.w = t /\ Mutex.r = {}

\* An RLock that does not wait for writers.
MutexRLockIgnoresWriter == TRUE

\* Mutex.RLock() succeeds when no writer holds or awaits the lock.
MutexRLockEnabled == Mutex.w = None

\* --------------------------------------------------------------- Set (160)

CallSet(t) ==
    /\ \E s \in Snaps : Call(t, "set_lock", s)
    /\ UNCHANGED <<store, _debugViaFlag, perm, objects, env, ret, retAlgo, err,
                   wtdLocals, u, sysName>>

\* line 161, Mutex.Lock(): announce
SetLock(t) ==
    /\ pc[t] = "set_lock"
    /\ MutexLockEnabled
    /\ Mutex' = [Mutex EXCEPT !.w = t]
    /\ pc' = [pc EXCEPT ![t] = "set_wait"]
    /\ UNCHANGED <<_config, _jwtAlgo, published, nextPtr, _debugViaFlag, perm,
                   objects, env, locals, calls, reads>>

\* line 161, Mutex.Lock(): the readers have drained
SetLocked(t) ==
    /\ pc[t] = "set_wait"
    /\ MutexLockedEnabled(t)
    /\ pc' = [pc EXCEPT ![t] = "set_cmp"]
    /\ UNCHANGED <<store, _debugViaFlag, perm, objects, env, locals, calls, reads>>

\* A Set that derives a key only for the first snapshot.
NeedsNewKeyFirstOnly(cfg) == _config = nil

\* A Set that derives a key on every call.
NeedsNewKeyAlways(cfg) == TRUE

\* line 163: the condition under which Set derives a new key
NeedsNewKey(cfg) ==
    \/ _config = nil
    \/ conf[_config].AuthenticationToken # conf[cfg].AuthenticationToken

\* lines 163-165
SetCompare(t) ==
    /\ pc[t] = "set_cmp"
    /\ IF NeedsNewKey(c[t])
       THEN /\ _jwtAlgo' = NewHS256(conf[c[t]].AuthenticationToken, nextPtr)
            /\ nextPtr' = nextPtr + 1
       ELSE UNCHANGED <<_jwtAlgo, nextPtr>>
    /\ pc' = [pc EXCEPT ![t] = "set_pub"]
    /\ UNCHANGED <<Mutex, _config, published, _debugViaFlag, perm, objects, env,
                   locals, calls, reads>>

\* A Set that stores the snapshot only when it derived a key for it.
SetPublishWithKeyOnly(t) ==
    /\ pc[t] = "set_pub"
    /\ _config' = IF NeedsNewKey(c[t]) THEN c[t] ELSE _config
    /\ published' = Append(published, c[t])
    /\ pc' = [pc EXCEPT ![t] = "set_unlock"]
    /\ UNCHANGED <<Mutex, _jwtAlgo, nextPtr, _debugViaFlag, perm, objects, env,
                   locals, calls, reads>>

\* line 167
SetPublish(t) ==
    /\ pc[t] = "set_pub"
    /\ _config' = c[t]
    /\ published' = Append(published, c[t])
    /\ pc' = [pc EXCEPT ![t] = "set_unlock"]
    /\ UNCHANGED <<Mutex, _jwtAlgo, nextPtr, _debugViaFlag, perm, objects, env,
                   locals, calls, reads>>

\* line 168
SetUnlock(t) ==
    /\ Return(t, "set_unlock")
    /\ Mutex' = [Mutex EXCEPT !.w = None]
    /\ UNCHANGED <<_config, _jwtAlgo, published, nextPtr, _debugViaFlag, perm,
                   objects, env, wtdLocals, u, sysName, calls, reads>>

\* ---------------------------------------------------- SetDebugViaFlag (171)

SetDebugViaFlag(t) ==
    /\ pc[t] = "idle"
    /\ calls < MaxCalls
    /\ calls' = calls + 1
    /\ \E d \in BOOLEAN : _debugViaFlag' = d
    /\ UNCHANGED <<store, perm, objects, env, pc, locals, reads>>

\* --------------------------------------------------------------- Get (177)

CallGet(t) ==
    /\ CallReader(t, "get_rlock")
    /\ UNCHANGED <<store, _debugViaFlag, perm, objects, env, ret, retAlgo, err,
                   wtdLocals, u, sysName>>

\* lines 178-181: Mutex.RLock(), and the return value is evaluated under it
GetRLock(t) ==
    /\ pc[t] = "get_rlock"
    /\ MutexRLockEnabled
    /\ Mutex' = [Mutex EXCEPT !.r = @ \cup {t}]
    /\ ret' = [ret EXCEPT ![t] = _config]
    /\ pc' = [pc EXCEPT ![t] = "get_runlock"]
    /\ UNCHANGED <<_config, _jwtAlgo, published, nextPtr, _debugViaFlag, perm,
                   objects, env, c, retAlgo, err, wtdLocals, u, sysName,
                   calls, reads>>

\* line 179, deferred Mutex.RUnlock(), and the return
GetRUnlock(t) ==
    /\ Return(t, "get_runlock")
    /\ Mutex' = [Mutex EXCEPT !.r = @ \ {t}]
    /\ UNCHANGED <<_config, _jwtAlgo, published, nextPtr, _debugViaFlag, perm,
                   objects, env, wtdLocals, u, sysName, calls, reads>>

\* --------------------------------------------------- GetJwtAlgorithm (185)

CallGetJwtAlgorithm(t) ==
    /\ CallReader(t, "jwt_rlock")
    /\ UNCHANGED <<store, _debugViaFlag, perm, objects, env, ret, retAlgo, err,
                   wtdLocals, u, sysName>>

\* lines 186-189: Mutex.RLock(), and the return value is evaluated under it
JwtRLock(t) ==
    /\ pc[t] = "jwt_rlock"
    /\ MutexRLockEnabled
    /\ Mutex' = [Mutex EXCEPT !.r = @ \cup {t}]
    /\ retAlgo' = [retAlgo EXCEPT ![t] = _jwtAlgo]
    /\ pc' = [pc EXCEPT ![t] = "jwt_runlock"]
    /\ UNCHANGED <<_config, _jwtAlgo, published, nextPtr, _debugViaFlag, perm,
                   objects, env, c, ret, err, wtdLocals, u, sysName, calls,
                   reads>>

\* line 187, deferred Mutex.RUnlock(), and the return
JwtRUnlock(t) ==
    /\ Return(t, "jwt_runlock")
    /\ Mutex' = [Mutex EXCEPT !.r = @ \ {t}]
    /\ UNCHANGED <<_config, _jwtAlgo, published, nextPtr, _debugViaFlag, perm,
                   objects, env, wtdLocals, u, sysName, calls, reads>>

\* ------------------------------------------------------- WriteToDisk (315)

\* The fields of the object that a setSystemUser of another goroutine has
\* still to assign (lines 253-255).
Pending(cfg) ==
    LET at == {pc[o] : o \in {x \in Threads : c[x] = cfg}}
    IN  (IF "ssu_name" \in at THEN {"Username", "Uid", "Gid"} ELSE {})
        \cup (IF "ssu_uid" \in at THEN {"Uid", "Gid"} ELSE {})
        \cup (IF "ssu_gid" \in at THEN {"Gid"} ELSE {})

\* line 316, ccopy := *c: the copy is made without c's lock, so it races
\* with the assignments of a setSystemUser on the same object; every field
\* still to be assigned is copied with its old or with its new value.
CopyOf(cfg) ==
    {[conf[cfg] EXCEPT !.Username = n, !.Uid = i, !.Gid = g] :
        n \in {conf[cfg].Username} \cup
                (IF "Username" \in Pending(cfg) THEN {OsAccount.Username} ELSE {}),
        i \in {conf[cfg].Uid} \cup
                (IF "Uid" \in Pending(cfg) THEN {Atoi(OsAccount.Uid)} ELSE {}),
        g \in {conf[cfg].Gid} \cup
                (IF "Gid" \in Pending(cfg) THEN {Atoi(OsAccount.Gid)} ELSE {})}

\* A copy that keeps the Debug value whatever the flag says.
DebugKept(cc) == cc

\* lines 316-321: the copy that is serialized
DebugStripped(cc) ==
    IF _debugViaFlag THEN [cc EXCEPT !.Debug = FALSE] ELSE cc

\* A WriteToDisk that does not check the path.
WtdBeginNoPathCheck(t, cfg) ==
    /\ \E cc \in CopyOf(cfg) : ccopy' = [ccopy EXCEPT ![t] = DebugStripped(cc)]
    /\ \/ /\ b' = [b EXCEPT ![t] = Bytes(Marshal(ccopy'[t]))]
          /\ pc' = [pc EXCEPT ![t] = "wtd_lock"]
          /\ UNCHANGED err
       \/ /\ err' = [err EXCEPT ![t] = "ErrMarshal"]
          /\ pc' = [pc EXCEPT ![t] = "wtd_ret"]
          /\ UNCHANGED b

\* lines 316-330: copy, override, the check of the path, and yaml.Marshal
WtdBegin(t, cfg) ==
    /\ \E cc \in CopyOf(cfg) : ccopy' = [ccopy EXCEPT ![t] = DebugStripped(cc)]
    /\ IF conf[cfg].path = ""
       THEN /\ err' = [err EXCEPT ![t] = "ErrNoPath"]
            /\ pc' = [pc EXCEPT ![t] = "wtd_ret"]
            /\ UNCHANGED b
       ELSE \/ /\ b' = [b EXCEPT ![t] = Bytes(Marshal(ccopy'[t]))]
               /\ pc' = [pc EXCEPT ![t] = "wtd_lock"]
               /\ UNCHANGED err
            \/ /\ err' = [err EXCEPT ![t] = "ErrMarshal"]
               /\ pc' = [pc EXCEPT ![t] = "wtd_ret"]
               /\ UNCHANGED b

\* A goroutine calls c.WriteToDisk() and runs it up to the lock.
CallWriteToDisk(t) ==
    /\ pc[t] = "idle"
    /\ calls < MaxCalls
    /\ calls' = calls + 1
    /\ \E s \in Snaps :
          /\ c' = [c EXCEPT ![t] = s]
          /\ WtdBegin(t, s)
    /\ caller' = [caller EXCEPT ![t] = "direct"]
    /\ UNCHANGED <<store, _debugViaFlag, perm, objects, env, ret, retAlgo, off, u,
                   sysName, reads>>

\* line 333: the lock WriteToDisk takes, a field of the receiver
WriteLockOf(cfg) == cfg

\* A WriteToDisk that serializes its writes with the lock of the store.
WtdLockStore(t) ==
    /\ pc[t] = "wtd_lock"
    /\ Mutex.w = None
    /\ Mutex.r = {}
    /\ Mutex' = [Mutex EXCEPT !.w = t]
    /\ pc' = [pc EXCEPT ![t] = "wtd_open"]
    /\ UNCHANGED <<_config, _jwtAlgo, published, nextPtr, _debugViaFlag, perm,
                   objects, env, locals, calls, reads>>

\* A WriteToDisk that takes the snapshot's own lock instead of writeLock.
WtdLockSnapshot(t) ==
    /\ pc[t] = "wtd_lock"
    /\ rwLock[c[t]] = None
    /\ rwLock' = [rwLock EXCEPT ![c[t]] = t]
    /\ pc' = [pc EXCEPT ![t] = "wtd_open"]
    /\ UNCHANGED <<store, _debugViaFlag, perm, conf, writeLock, env, locals,
                   calls, reads>>

\* line 333
WtdLock(t) ==
    /\ pc[t] = "wtd_lock"
    /\ writeLock[WriteLockOf(c[t])] = None
    /\ writeLock' = [writeLock EXCEPT ![WriteLockOf(c[t])] = t]
    /\ pc' = [pc EXCEPT ![t] = "wtd_open"]
    /\ UNCHANGED <<store, _debugViaFlag, perm, conf, rwLock, env, locals, calls, reads>>

\* line 336, ioutil.WriteFile: os.OpenFile(O_WRONLY|O_CREATE|O_TRUNC)
WtdOpen(t) ==
    /\ pc[t] = "wtd_open"
    /\ \/ /\ file' = <<>>
          /\ off' = [off EXCEPT ![t] = 0]
          /\ pc' = [pc EXCEPT ![t] = "wtd_write"]
          /\ UNCHANGED err
       \/ /\ err' = [err EXCEPT ![t] = "ErrIO"]
          /\ pc' = [pc EXCEPT ![t] = "wtd_unlock"]
          /\ UNCHANGED <<file, off>>
    /\ UNCHANGED <<store, _debugViaFlag, perm, objects, osUser, osGroup, c, ret,
                   retAlgo, ccopy, b, caller, u, sysName, calls, reads>>

\* line 336, ioutil.WriteFile: f.Write(data), one write(2) per part, and
\* f.Close() after the last one
WtdWrite(t) ==
    /\ pc[t] = "wtd_write"
    /\ \/ /\ file' = WriteAt(file, off[t] + 1, b[t][off[t] + 1])
          /\ off' = [off EXCEPT ![t] = @ + 1]
          /\ pc' = [pc EXCEPT ![t] =
                        IF off[t] + 1 = DocParts THEN "wtd_unlock" ELSE @]
          /\ UNCHANGED err
       \/ /\ err' = [err EXCEPT ![t] = "ErrIO"]
          /\ pc' = [pc EXCEPT ![t] = "wtd_unlock"]
          /\ UNCHANGED <<file, off>>
    /\ UNCHANGED <<store, _debugViaFlag, perm, objects, osUser, osGroup, c, ret,
                   retAlgo, ccopy, b, caller, u, sysName, calls, reads>>

\* line 334, deferred c.writeLock.Unlock()
WtdUnlock(t) ==
    /\ pc[t] = "wtd_unlock"
    /\ writeLock' = [writeLock EXCEPT ![WriteLockOf(c[t])] = None]
    /\ pc' = [pc EXCEPT ![t] = "wtd_ret"]
    /\ UNCHANGED <<store, _debugViaFlag, perm, conf, rwLock, env, locals, calls, reads>>

\* A WriteToDisk that a goroutine called returns err to it
WtdReturn(t) ==
    /\ caller[t] = "direct"
    /\ Return(t, "wtd_ret")
    /\ ccopy' = [ccopy EXCEPT ![t] = ZeroConf]
    /\ b' = [b EXCEPT ![t] = <<>>]
    /\ off' = [off EXCEPT ![t] = 0]
    /\ caller' = [caller EXCEPT ![t] = None]
    /\ UNCHANGED <<store, _debugViaFlag, perm, objects, env, u, sysName, calls,
                   reads>>

\* ---------------------------------------------- EnsurePterodactylUser (202)

\* A lookup that takes every call to the creation path, found or not.
EpuBeginCreatesAlways(t) ==
    \/ /\ pc' = [pc EXCEPT ![t] = "epu_sysname"]
       /\ UNCHANGED <<u, err>>
    \/ /\ err' = [err EXCEPT ![t] = "ErrLookup"]
       /\ pc' = [pc EXCEPT ![t] = "epu_ret"]
       /\ UNCHANGED u

\* A lookup whose every failure is taken for an unknown account.
EpuBeginAnyErrorCreates(t) ==
    \/ /\ osUser
       /\ u' = [u EXCEPT ![t] = OsAccount]
       /\ pc' = [pc EXCEPT ![t] = "ssu_lock"]
       /\ UNCHANGED err
    \/ /\ pc' = [pc EXCEPT ![t] = "epu_sysname"]
       /\ UNCHANGED <<u, err>>

\* lines 203-211: user.Lookup(c.System.Username)
EpuBegin(t) ==
    \/ /\ osUser
       /\ u' = [u EXCEPT ![t] = OsAccount]
       /\ pc' = [pc EXCEPT ![t] = "ssu_lock"]
       /\ UNCHANGED err
    \/ /\ ~osUser
       /\ pc' = [pc EXCEPT ![t] = "epu_sysname"]
       /\ UNCHANGED <<u, err>>
    \/ /\ err' = [err EXCEPT ![t] = "ErrLookup"]
       /\ pc' = [pc EXCEPT ![t] = "epu_ret"]
       /\ UNCHANGED u

\* A goroutine calls c.EnsurePterodactylUser() and runs the first lookup.
CallEnsurePterodactylUser(t) ==
    /\ pc[t] = "idle"
    /\ calls < MaxCalls
    /\ calls' = calls + 1
    /\ \E s \in Snaps : c' = [c EXCEPT ![t] = s]
    /\ EpuBegin(t)
    /\ UNCHANGED <<store, _debugViaFlag, perm, objects, env, ret, retAlgo,
                   wtdLocals, sysName, reads>>

\* lines 213-225: getSystemName() reads the ID of /etc/os-release; the
\* command template is chosen by strings.HasPrefix(sysName, "alpine")
EpuSystemName(t) ==
    /\ pc[t] = "epu_sysname"
    /\ \/ /\ \E id \in {"alpine", "ubuntu"} :
                /\ sysName' = [sysName EXCEPT ![t] = id]
                /\ pc' = [pc EXCEPT ![t] =
                              IF id = "alpine" THEN "epu_addgroup"
                                               ELSE "epu_useradd"]
          /\ UNCHANGED err
       \/ /\ err' = [err EXCEPT ![t] = "ErrRelease"]
          /\ pc' = [pc EXCEPT ![t] = "epu_ret"]
          /\ UNCHANGED sysName
    /\ UNCHANGED <<store, _debugViaFlag, perm, objects, env, c, ret, retAlgo,
                   wtdLocals, u, calls, reads>>

\* An addgroup whose failure is ignored: the account creation runs anyway.
EpuAddGroupIgnoresFailure(t) ==
    /\ pc[t] = "epu_addgroup"
    /\ \/ /\ ~osGroup
          /\ osGroup' = TRUE
       \/ UNCHANGED osGroup
    /\ pc' = [pc EXCEPT ![t] = "epu_useradd"]
    /\ UNCHANGED <<store, _debugViaFlag, perm, objects, file, osUser, c, ret,
                   retAlgo, err, wtdLocals, u, sysName, calls, reads>>

\* lines 227-229: addgroup -S <name>
EpuAddGroup(t) ==
    /\ pc[t] = "epu_addgroup"
    /\ \/ /\ ~osGroup
          /\ osGroup' = TRUE
          /\ pc' = [pc EXCEPT ![t] = "epu_useradd"]
          /\ UNCHANGED err
       \/ /\ err' = [err EXCEPT ![t] = "ErrExec"]
          /\ pc' = [pc EXCEPT ![t] = "epu_ret"]
          /\ UNCHANGED osGroup
    /\ UNCHANGED <<store, _debugViaFlag, perm, objects, file, osUser, c, ret,
                   retAlgo, wtdLocals, u, sysName, calls, reads>>

\* lines 232-235: useradd / adduser; sysName and command are dead afterwards
EpuUserAdd(t) ==
    /\ pc[t] = "epu_useradd"
    /\ \/ /\ ~osUser
          /\ osUser' = TRUE
          /\ osGroup' = TRUE
          /\ pc' = [pc EXCEPT ![t] = "epu_lookup2"]
          /\ UNCHANGED err
       \/ /\ err' = [err EXCEPT ![t] = "ErrExec"]
          /\ pc' = [pc EXCEPT ![t] = "epu_ret"]
          /\ UNCHANGED <<osUser, osGroup>>
    /\ sysName' = [sysName EXCEPT ![t] = ""]
    /\ UNCHANGED <<store, _debugViaFlag, perm, objects, file, c, ret, retAlgo,
                   wtdLocals, u, calls, reads>>

\* lines 237-241: the second user.Lookup
EpuLookupAgain(t) ==
    /\ pc[t] = "epu_lookup2"
    /\ \/ /\ osUser
          /\ u' = [u EXCEPT ![t] = OsAccount]
          /\ pc' = [pc EXCEPT ![t] = "ssu_lock"]
          /\ UNCHANGED err
       \/ /\ err' = [err EXCEPT ![t] = "ErrLookup"]
          /\ pc' = [pc EXCEPT ![t] = "epu_ret"]
          /\ UNCHANGED u
    /\ UNCHANGED <<store, _debugViaFlag, perm, objects, env, c, ret, retAlgo,
                   wtdLocals, sysName, calls, reads>>

\* EnsurePterodactylUser returns (u, err)
EpuReturn(t) ==
    /\ Return(t, "epu_ret")
    /\ u' = [u EXCEPT ![t] = NoUser]
    /\ sysName' = [sysName EXCEPT ![t] = ""]
    /\ UNCHANGED <<store, _debugViaFlag, perm, objects, env, wtdLocals, calls, reads>>

\* ------------------------------------------------------ setSystemUser (246)

\* A setSystemUser that updates the fields without taking c.Lock().
SsuNoLock(t) ==
    /\ pc[t] = "ssu_lock"
    /\ pc' = [pc EXCEPT ![t] = "ssu_name"]
    /\ UNCHANGED <<store, _debugViaFlag, perm, objects, env, locals, calls, reads>>

\* lines 247-250: c.Lock()
SsuLock(t) ==
    /\ pc[t] = "ssu_lock"
    /\ rwLock[c[t]] = None
    /\ rwLock' = [rwLock EXCEPT ![c[t]] = t]
    /\ pc' = [pc EXCEPT ![t] = "ssu_name"]
    /\ UNCHANGED <<store, _debugViaFlag, perm, conf, writeLock, env, locals, calls, reads>>

\* line 253
SsuSetUsername(t) ==
    /\ pc[t] = "ssu_name"
    /\ conf' = [conf EXCEPT ![c[t]].Username = u[t].Username]
    /\ pc' = [pc EXCEPT ![t] = "ssu_uid"]
    /\ UNCHANGED <<store, _debugViaFlag, perm, rwLock, writeLock, env, locals, calls, reads>>

\* line 254
SsuSetUid(t) ==
    /\ pc[t] = "ssu_uid"
    /\ conf' = [conf EXCEPT ![c[t]].Uid = Atoi(u[t].Uid)]
    /\ pc' = [pc EXCEPT ![t] = "ssu_gid"]
    /\ UNCHANGED <<store, _debugViaFlag, perm, rwLock, writeLock, env, locals, calls, reads>>

\* line 255
SsuSetGid(t) ==
    /\ pc[t] = "ssu_gid"
    /\ conf' = [conf EXCEPT ![c[t]].Gid = Atoi(u[t].Gid)]
    /\ pc' = [pc EXCEPT ![t] = "ssu_write"]
    /\ UNCHANGED <<store, _debugViaFlag, perm, rwLock, writeLock, env, locals, calls, reads>>

\* line 257: the call of c.WriteToDisk(), run up to the lock
SsuWriteToDisk(t) ==
    /\ pc[t] = "ssu_write"
    /\ caller' = [caller EXCEPT ![t] = "setSystemUser"]
    /\ WtdBegin(t, c[t])
    /\ UNCHANGED <<store, _debugViaFlag, perm, objects, env, c, ret, retAlgo, off,
                   u, sysName, calls, reads>>

\* A setSystemUser that reports success whatever WriteToDisk returned.
SsuUnlockDropsError(t) ==
    /\ pc[t] = "wtd_ret"
    /\ caller[t] = "setSystemUser"
    /\ rwLock' = [rwLock EXCEPT ![c[t]] = None]
    /\ pc' = [pc EXCEPT ![t] = "epu_ret"]
    /\ err' = [err EXCEPT ![t] = nil]
    /\ ccopy' = [ccopy EXCEPT ![t] = ZeroConf]
    /\ b' = [b EXCEPT ![t] = <<>>]
    /\ off' = [off EXCEPT ![t] = 0]
    /\ caller' = [caller EXCEPT ![t] = None]
    /\ UNCHANGED <<store, _debugViaFlag, perm, conf, writeLock, env, c, ret, retAlgo,
                   u, sysName, calls, reads>>

\* lines 257 and 251: WriteToDisk has returned err to setSystemUser, which
\* returns it after the deferred c.Unlock()
SsuUnlock(t) ==
    /\ pc[t] = "wtd_ret"
    /\ caller[t] = "setSystemUser"
    /\ rwLock' = [rwLock EXCEPT ![c[t]] = None]
    /\ pc' = [pc EXCEPT ![t] = "epu_ret"]
    /\ ccopy' = [ccopy EXCEPT ![t] = ZeroConf]
    /\ b' = [b EXCEPT ![t] = <<>>]
    /\ off' = [off EXCEPT ![t] = 0]
    /\ caller' = [caller EXCEPT ![t] = None]
    /\ UNCHANGED <<store, _debugViaFlag, perm, conf, writeLock, env, c, ret, retAlgo,
                   err, u, sysName, calls, reads>>

\* ------------------------------------------------------------------ Next

Next ==
    \E t \in Threads :
        \/ CallSet(t)
        \/ SetLock(t)
        \/ SetLocked(t)
        \/ SetCompare(t)
        \/ SetPublish(t)
        \/ SetUnlock(t)
        \/ SetDebugViaFlag(t)
        \/ CallGet(t)
        \/ GetRLock(t)
        \/ GetRUnlock(t)
        \/ CallGetJwtAlgorithm(t)
        \/ JwtRLock(t)
        \/ JwtRUnlock(t)
        \/ CallWriteToDisk(t)
        \/ WtdLock(t)
        \/ WtdOpen(t)
        \/ WtdWrite(t)
        \/ WtdUnlock(t)
        \/ WtdReturn(t)
        \/ CallEnsurePterodactylUser(t)
        \/ EpuSystemName(t)
        \/ EpuAddGroup(t)
        \/ EpuUserAdd(t)
        \/ EpuLookupAgain(t)
        \/ EpuReturn(t)
        \/ SsuLock(t)
        \/ SsuSetUsername(t)
        \/ SsuSetUid(t)
        \/ SsuSetGid(t)
        \/ SsuWriteToDisk(t)
        \/ SsuUnlock(t)

Spec == Init /\ [][Next]_vars

\* ------------------------------------- identity provisioning and persistence

\* The steps with which a goroutine continues a call of WriteToDisk or
\* EnsurePterodactylUser it has issued.
ProceedIdentity(t) ==
    \/ WtdLock(t)
    \/ WtdOpen(t)
    \/ WtdWrite(t)
    \/ WtdUnlock(t)
    \/ WtdReturn(t)
    \/ EpuSystemName(t)
    \/ EpuAddGroup(t)
    \/ EpuUserAdd(t)
    \/ EpuLookupAgain(t)
    \/ EpuReturn(t)
    \/ SsuLock(t)
    \/ SsuSetUsername(t)
    \/ SsuSetUid(t)
    \/ SsuSetGid(t)
    \/ SsuWriteToDisk(t)
    \/ SsuUnlock(t)

\* The steps with which a goroutine continues any call it has issued.
Proceed(t) ==
    \/ SetLock(t)
    \/ SetLocked(t)
    \/ SetCompare(t)
    \/ SetPublish(t)
    \/ SetUnlock(t)
    \/ GetRLock(t)
    \/ GetRUnlock(t)
    \/ JwtRLock(t)
    \/ JwtRUnlock(t)
    \/ ProceedIdentity(t)

\* The goroutines call only WriteToDisk and EnsurePterodactylUser.
NextIdentity ==
    \E t \in Threads :
        \/ CallWriteToDisk(t)
        \/ CallEnsurePterodactylUser(t)
        \/ ProceedIdentity(t)

\* The Go scheduler runs every runnable goroutine, a sync.Mutex is handed to
\* a waiting goroutine once it is free, and every lookup, command and file
\* operation returns: a call that can continue does continue.
FairIdentity ==
    /\ Init
    /\ [][NextIdentity]_vars
    /\ \A t \in Threads : WF_vars(ProceedIdentity(t))

\* ------------------------------------------------ EnsureFilePermissions (262)

\* The statement the loop of line 283 continues with after n entries.
LoopOrWait(fs, n) == IF n < Len(fs) THEN "add" ELSE "wait"

\* lines 265-269: the check of SetPermissionsOnBoot
CallEnsureFilePermissions ==
    /\ efp = "idle"
    /\ IF setPermissionsOnBoot
       THEN efp' = "readdir"
       ELSE efp' = "done"
    /\ UNCHANGED <<process, setPermissionsOnBoot, dataDir, owner, files, idx,
                   su, wg, task, efpErr, warned>>

\* lines 271-274
EfpReadDir ==
    /\ efp = "readdir"
    /\ \/ /\ files' = ReadDir(dataDir)
          /\ efp' = "lookup"
          /\ UNCHANGED efpErr
       \/ /\ efpErr' = "ErrReadDir"
          /\ efp' = "done"
          /\ UNCHANGED files
    /\ UNCHANGED <<process, setPermissionsOnBoot, dataDir, owner, idx, su, wg,
                   task, warned>>

\* lines 276-281: user.Lookup(c.System.Username), and the new WaitGroup
EfpLookup ==
    /\ efp = "lookup"
    /\ \/ /\ osUser
          /\ su' = OsAccount
          /\ efp' = LoopOrWait(files, 0)
          /\ UNCHANGED efpErr
       \/ /\ efpErr' = "ErrLookup"
          /\ efp' = "done"
          /\ UNCHANGED su
    /\ UNCHANGED <<process, setPermissionsOnBoot, dataDir, owner, files, idx,
                   wg, task, warned>>

\* line 284: wg.Add(1)
EfpAdd ==
    /\ efp = "add"
    /\ wg' = wg + 1
    /\ efp' = "go"
    /\ UNCHANGED <<process, setPermissionsOnBoot, dataDir, owner, files, idx,
                   su, task, efpErr, warned>>

\* lines 291 and 304: the go statement, with the entry as its argument
EfpGo ==
    /\ efp = "go"
    /\ task' = [task EXCEPT ![files[idx + 1]] = "check"]
    /\ idx' = idx + 1
    /\ efp' = LoopOrWait(files, idx + 1)
    /\ UNCHANGED <<process, setPermissionsOnBoot, dataDir, owner, files, su,
                   wg, efpErr, warned>>

\* A Wait that does not wait.
WgWaitNoBarrier == TRUE

\* line 307: wg.Wait() returns when the counter is zero
WgWaitEnabled == wg = 0

\* A call that returns an error when a chown has failed.
EfpWaitReturnsFailure ==
    /\ efp = "wait"
    /\ WgWaitEnabled
    /\ efp' = "done"
    /\ efpErr' = IF warned = {} THEN nil ELSE "ErrChown"
    /\ UNCHANGED <<process, setPermissionsOnBoot, dataDir, owner, files, idx,
                   su, wg, task, warned>>

\* lines 307-309
EfpWait ==
    /\ efp = "wait"
    /\ WgWaitEnabled
    /\ efp' = "done"
    /\ efpErr' = nil
    /\ UNCHANGED <<process, setPermissionsOnBoot, dataDir, owner, files, idx,
                   su, wg, task, warned>>

\* A goroutine that leaves on the skip path without its Done.
TaskCheckSkipsDone(e) ==
    /\ task[e] = "check"
    /\ task' = [task EXCEPT ![e] =
                    IF ~IsDir(e) \/ ~MatchString(Name(e)) THEN "done"
                                                          ELSE "chown"]
    /\ UNCHANGED <<process, setPermissionsOnBoot, dataDir, owner, efp, files,
                   idx, su, wg, efpErr, warned>>

\* lines 294-296
TaskCheck(e) ==
    /\ task[e] = "check"
    /\ task' = [task EXCEPT ![e] =
                    IF ~IsDir(e) \/ ~MatchString(Name(e)) THEN "exit"
                                                          ELSE "chown"]
    /\ UNCHANGED <<process, setPermissionsOnBoot, dataDir, owner, efp, files,
                   idx, su, wg, efpErr, warned>>

\* lines 298-303: os.Chown of the entry itself; a failure is logged
TaskChown(e) ==
    /\ task[e] = "chown"
    /\ \/ /\ owner' = [owner EXCEPT ![e] = <<Atoi(su.Uid), Atoi(su.Gid)>>]
          /\ UNCHANGED warned
       \/ /\ warned' = warned \cup {e}
          /\ UNCHANGED owner
    /\ task' = [task EXCEPT ![e] = "exit"]
    /\ UNCHANGED <<process, setPermissionsOnBoot, dataDir, efp, files, idx, su,
                   wg, efpErr>>

\* line 292: the deferred wg.Done()
TaskDone(e) ==
    /\ task[e] = "exit"
    /\ wg' = wg - 1
    /\ task' = [task EXCEPT ![e] = "done"]
    /\ UNCHANGED <<process, setPermissionsOnBoot, dataDir, owner, efp, files,
                   idx, su, efpErr, warned>>

\* A data directory with at most MaxEntries entries, the feature on or off,
\* the account present or not; no call issued yet.
InitPermissions ==
    /\ InitProcess
    /\ osUser \in BOOLEAN
    /\ osGroup = osUser
    /\ \E enabled \in BOOLEAN, d \in SUBSET Entries :
          /\ Cardinality(d \cap Children) <= MaxEntries
          /\ ("nested" \in d) <=> ("srvA" \in d)
          /\ InitPerm(enabled, d)

\* The steps of the goroutine that calls EnsureFilePermissions.
EfpStep ==
    \/ CallEnsureFilePermissions
    \/ EfpReadDir
    \/ EfpLookup
    \/ EfpAdd
    \/ EfpGo
    \/ EfpWait

\* The steps of the goroutine started for entry e.
TaskStep(e) ==
    \/ TaskCheck(e)
    \/ TaskChown(e)
    \/ TaskDone(e)

NextPermissions ==
    \/ EfpStep
    \/ \E e \in Children : TaskStep(e)

SpecPermissions == InitPermissions /\ [][NextPermissions]_vars

\* The Go scheduler runs every runnable goroutine, and every os.Chown,
\* ReadDir and Lookup returns.
FairPermissions ==
    /\ SpecPermissions
    /\ WF_vars(EfpStep)
    /\ \A e \in Children : WF_vars(TaskStep(e))

\* ------------------------------------------------------- state predicates

\* The goroutine is inside Set's critical section (lines 163-167).
InSet(t) == pc[t] \in {"set_cmp", "set_pub", "set_unlock"}

\* The goroutine is inside the read section of Get or GetJwtAlgorithm.
InRead(t) == pc[t] \in {"get_runlock", "jwt_runlock"}

\* The key is the one derived from the active snapshot's token.
KeyMatchesSnapshot ==
    /\ _config # nil
    /\ _jwtAlgo # NilAlgo
    /\ _jwtAlgo.key = conf[_config].AuthenticationToken

PublishedSet == {published[i] : i \in 1..Len(published)}

\* ---------------------------------------------------------------- claims

\* C1: once a Set has published, in every state in which no Set is inside
\* its critical section the key of the store is the key derived from the
\* AuthenticationToken of the active snapshot, and a GetJwtAlgorithm inside
\* its read section has read exactly that key.
C1_KeyDerivedFromActiveSnapshot ==
    (published # <<>> /\ \A t \in Threads : ~InSet(t)) =>
        /\ KeyMatchesSnapshot
        /\ \A t \in Threads :
              pc[t] = "jwt_runlock" =>
                  /\ retAlgo[t] = _jwtAlgo
                  /\ retAlgo[t].key = conf[_config].AuthenticationToken

\* C1 witness: a second Set changed the token and a GetJwtAlgorithm has read
\* the key of the new token.
C1_Witness ==
    \E t \in Threads :
        /\ pc[t] = "jwt_runlock"
        /\ Len(published) = 2
        /\ conf[published[1]].AuthenticationToken
              # conf[published[2]].AuthenticationToken
        /\ retAlgo[t].key = conf[published[2]].AuthenticationToken

\* C2: the step of Set that passes lines 163-165 replaces the key exactly
\* when no snapshot was active or the tokens differ by value; a replaced key
\* is a fresh one derived from the new token; no other step changes the key.
C2_RecomputedIffTokenChanged ==
    [][ /\ \A t \in Threads :
              (pc[t] = "set_cmp" /\ pc'[t] = "set_pub") =>
                  /\ (_jwtAlgo' # _jwtAlgo) <=>
                        (\/ _config = nil
                         \/ conf[_config].AuthenticationToken
                               # conf[c[t]].AuthenticationToken)
                  /\ (_jwtAlgo' # _jwtAlgo) =>
                        /\ _jwtAlgo'.key = conf[c[t]].AuthenticationToken
                        /\ _jwtAlgo'.ptr > _jwtAlgo.ptr
        /\ (_jwtAlgo' # _jwtAlgo) =>
              \E t \in Threads : pc[t] = "set_cmp" /\ pc'[t] = "set_pub"
      ]_vars

\* C2 witness: Set(A) then Set(B) with identical tokens on two objects has
\* completed and the key is still the first one that was derived.
C2_Witness ==
    /\ Len(published) = 2
    /\ published[1] # published[2]
    /\ conf[published[1]].AuthenticationToken
          = conf[published[2]].AuthenticationToken
    /\ _config = published[2]
    /\ _jwtAlgo.ptr = 1
    /\ \A t \in Threads : pc[t] = "idle"

\* C3: a Get inside its read section has read nil exactly when no Set has
\* published yet, and otherwise the snapshot the latest Set published.
C3_GetNilOnlyBeforeFirstSet ==
    \A t \in Threads :
        pc[t] = "get_runlock" =>
            /\ (ret[t] = nil) <=> (published = <<>>)
            /\ (ret[t] # nil) => ret[t] = published[Len(published)]

\* C3 witness: a Get has read a snapshot while another goroutine's Set is
\* waiting for the store.
C3_Witness ==
    \E t, w \in Threads :
        /\ pc[t] = "get_runlock"
        /\ ret[t] # nil
        /\ pc[w] = "set_wait"

\* C4: a Set inside its critical section excludes every reader and every
\* other Set; a reader inside its read section sees the store as one Set
\* left it (or as it was constructed), key and snapshot of the same Set.
C4_ReadersShareWritersExclude ==
    /\ \A t, o \in Threads :
          (InSet(t) /\ o # t) => (~InSet(o) /\ ~InRead(o))
    /\ (\E t \in Threads : InRead(t)) =>
          \/ (published = <<>> /\ _config = nil /\ _jwtAlgo = NilAlgo)
          \/ (published # <<>> /\ _config = published[Len(published)]
                /\ KeyMatchesSnapshot)

\* C4 witness: two readers are inside the read section at the same time,
\* after a Set has published.
C4_Witness ==
    \E t, o \in Threads :
        /\ t # o
        /\ pc[t] = "get_runlock"
        /\ pc[o] = "jwt_runlock"
        /\ published # <<>>

\* The goroutine has the file open for writing (inside ioutil.WriteFile,
\* between OpenFile and Close).
InWriteFile(t) == pc[t] = "wtd_write"

\* The goroutine holds a writeLock and its WriteToDisk has not finished.
InDiskWrite(t) == pc[t] \in {"wtd_open", "wtd_write", "wtd_unlock"}

\* The file holds one whole document: every part, all of one serialization.
Complete(f) ==
    /\ Len(f) = DocParts
    /\ \A i \in 1..Len(f) : f[i].i = i /\ f[i].doc = f[1].doc

\* The fields setSystemUser records.
Identity(cc) == <<cc.Username, cc.Uid, cc.Gid>>

\* The fields no operation writes after construction.
Settings(cc) == <<cc.path, cc.Debug, cc.AuthenticationToken>>

\* C5 as stated: no step changes any field of a snapshot that Set has
\* published.
C5_PublishedNeverMutated ==
    [][\A s \in PublishedSet : conf'[s] = conf[s]]_vars

\* C5 as amended: the path, Debug and AuthenticationToken of a snapshot are
\* never changed in place; its recorded account name, uid and gid are
\* changed in place only by setSystemUser called on that snapshot, holding
\* that snapshot's own lock; and the active snapshot reference changes only
\* by the publishing step of a Set, to the snapshot that Set was given.
C5_OnlySetSystemUserMutates ==
    [][ /\ \A s \in Snaps :
              /\ Settings(conf'[s]) = Settings(conf[s])
              /\ (Identity(conf'[s]) # Identity(conf[s])) =>
                    \E t \in Threads :
                        /\ c[t] = s
                        /\ rwLock[s] = t
                        /\ pc[t] \in {"ssu_name", "ssu_uid", "ssu_gid"}
        /\ (_config' # _config) =>
              \E t \in Threads : pc[t] = "set_pub" /\ _config' = c[t]
      ]_vars

\* C5 witness: the active, published snapshot carries a uid that
\* setSystemUser wrote into it in place.
C5_Witness ==
    /\ _config # nil
    /\ _config \in PublishedSet
    /\ conf[_config].Uid # InitConf(_config).Uid
    /\ conf[_config].Uid = Atoi(OsAccount.Uid)

\* C6: the document WriteToDisk serializes has debug = false when the
\* override is active and the snapshot's Debug otherwise; every part it
\* writes to the file is a part of that document; and no step of any
\* operation changes the Debug field of a snapshot in memory.
C6_DebugOverrideOnCopyOnly ==
    [][ /\ \A t \in Threads :
              (pc[t] \in {"idle", "ssu_write"} /\ pc'[t] = "wtd_lock") =>
                  \A i \in 1..DocParts :
                      b'[t][i].doc.debug =
                          (IF _debugViaFlag THEN FALSE
                                            ELSE conf[c'[t]].Debug)
        /\ \A t \in Threads :
              (pc[t] = "wtd_write" /\ off'[t] = off[t] + 1) =>
                  /\ file'[off'[t]] = b[t][off'[t]]
                  /\ b'[t] = b[t]
        /\ \A s \in Snaps : conf'[s].Debug = conf[s].Debug
      ]_vars

\* C6 witness: with the override active a WriteToDisk of a snapshot whose
\* Debug is true has written its whole document, which says debug = false.
C6_Witness ==
    \E t \in Threads :
        /\ pc[t] = "wtd_unlock"
        /\ err[t] = nil
        /\ _debugViaFlag
        /\ conf[c[t]].Debug
        /\ file = b[t]
        /\ Complete(file)
        /\ file[1].doc.debug = FALSE

\* C7 as stated: two WriteToDisk calls with the same destination path never
\* have the file open for writing at the same time.
C7_WritesMutuallyExclusive ==
    \A t, o \in Threads :
        (t # o /\ InWriteFile(t) /\ InWriteFile(o)) =>
            conf[c[t]].path # conf[c[o]].path

\* C8 as stated: the file always holds one whole document.
C8_NoPartialDocument == Complete(file)

\* C9: while a WriteToDisk holds a writeLock and has not finished, it holds
\* no part of the store's Mutex, and every goroutine waiting at the RLock of
\* Get or GetJwtAlgorithm can take it unless a Set holds or awaits the Mutex.
C9_DiskWriteNeverBlocksReaders ==
    \A w \in Threads :
        InDiskWrite(w) =>
            /\ Mutex.w # w
            /\ w \notin Mutex.r
            /\ \A t \in Threads :
                  (/\ pc[t] \in {"get_rlock", "jwt_rlock"}
                   /\ \A s \in Threads :
                         pc[s] \notin {"set_wait", "set_cmp", "set_pub",
                                       "set_unlock"})
                  => ENABLED (GetRLock(t) \/ JwtRLock(t))

\* C9 witness: a Get is inside its read section while the WriteToDisk that
\* setSystemUser issued has the file open.
C9_Witness ==
    \E w, t \in Threads :
        /\ pc[w] = "wtd_write"
        /\ caller[w] = "setSystemUser"
        /\ pc[t] = "get_runlock"

\* C10: a WriteToDisk that is about to return returns the path error exactly
\* when the snapshot has no path, success exactly when every part of the
\* document was written, and holds no writeLock; a WriteToDisk on a
\* snapshot without a path never reaches a statement that touches the file.
C10_WriteToDiskErrors ==
    \A t \in Threads :
        /\ (pc[t] = "wtd_ret") =>
              /\ (err[t] = "ErrNoPath") <=> (conf[c[t]].path = "")
              /\ (err[t] = nil) <=> (off[t] = DocParts)
              /\ err[t] \in {nil, "ErrNoPath", "ErrMarshal", "ErrIO"}
              /\ \A s \in Snaps : writeLock[s] # t
        /\ (pc[t] \in {"wtd_lock", "wtd_open", "wtd_write", "wtd_unlock"}) =>
              conf[c[t]].path # ""

\* C10 witness: a WriteToDisk on the snapshot without a path is about to
\* return the path error and the file is as it was.
C10_Witness ==
    \E t \in Threads :
        /\ pc[t] = "wtd_ret"
        /\ conf[c[t]].path = ""
        /\ err[t] = "ErrNoPath"
        /\ file = Bytes(Marshal(InitConf("A")))

\* The identity setSystemUser records for a looked-up account (lines 247-255).
Recorded(usr) == <<usr.Username, Atoi(usr.Uid), Atoi(usr.Gid)>>

\* C11: a call of EnsurePterodactylUser enters the creation path only from
\* its first lookup and only when the account does not exist; a call whose
\* lookup found the account goes straight to setSystemUser; a call reaches a
\* creation command only along the creation path, so it issues the account
\* creation at most once; the account is created at most once in a run; and
\* every call that returns success has recorded the identity of the account.
C11_LookupFirstIdempotent ==
    [][ /\ \A t \in Threads :
              /\ (pc'[t] = "epu_sysname" /\ pc[t] # "epu_sysname") =>
                    (pc[t] = "idle" /\ ~osUser)
              /\ (pc'[t] = "epu_addgroup" /\ pc[t] # "epu_addgroup") =>
                    pc[t] = "epu_sysname"
              /\ (pc'[t] = "epu_useradd" /\ pc[t] # "epu_useradd") =>
                    pc[t] \in {"epu_sysname", "epu_addgroup"}
              /\ (pc[t] = "idle" /\ pc'[t] = "ssu_lock") =>
                    (osUser /\ u'[t] = OsAccount)
              /\ (pc[t] = "epu_ret" /\ pc'[t] = "idle" /\ err[t] = nil) =>
                    Identity(conf[c[t]]) = Recorded(OsAccount)
        /\ (osUser' # osUser) =>
              /\ ~osUser
              /\ \E t \in Threads :
                    pc[t] = "epu_useradd" /\ pc'[t] = "epu_lookup2"
      ]_vars

\* C11 witness: two calls of EnsurePterodactylUser, on A and on B, have
\* succeeded; one of them created the account, the other found it, and both
\* snapshots carry the same identity.
C11_Witness ==
    \E t \in Threads :
        /\ pc[t] = "epu_ret"
        /\ err[t] = nil
        /\ c[t] = "B"
        /\ Identity(conf["A"]) = Recorded(OsAccount)
        /\ Identity(conf["B"]) = Recorded(OsAccount)
        /\ \A o \in Threads \ {t} : pc[o] = "idle"

\* The identity a serialized document carries.
DocIdentity(doc) == <<doc.username, doc.uid, doc.gid>>

\* C12: setSystemUser hands the result of its WriteToDisk to the caller of
\* EnsurePterodactylUser unchanged; when that result is success, every part
\* of the document was written, the document and the snapshot carry the
\* looked-up identity, and the snapshot's lock was held throughout; when it
\* is an error the call returns it although the account exists; and a call
\* returns success only with a looked-up account recorded in its snapshot.
C12_SuccessMeansRecordedAndPersisted ==
    [][\A t \in Threads :
          /\ (pc[t] = "wtd_ret" /\ caller[t] = "setSystemUser"
                 /\ pc'[t] # "wtd_ret") =>
                /\ pc'[t] = "epu_ret"
                /\ err'[t] = err[t]
                /\ u'[t] = u[t]
                /\ (err[t] = nil) =>
                      /\ off[t] = DocParts
                      /\ \A i \in 1..DocParts :
                            DocIdentity(b[t][i].doc) = Recorded(u[t])
                      /\ Identity(conf[c[t]]) = Recorded(u[t])
                      /\ rwLock[c[t]] = t
                /\ (err[t] # nil) => (osUser /\ u[t] = OsAccount)
          /\ (pc[t] = "epu_ret" /\ pc'[t] = "idle" /\ err[t] = nil) =>
                /\ u[t] = OsAccount
                /\ Identity(conf[c[t]]) = Recorded(u[t])
      ]_vars

\* C12 witness: one call is about to return success with the identity
\* recorded, another is about to return the error of its disk write although
\* the account exists.
C12_Witness ==
    \E t, o \in Threads :
        /\ pc[t] = "epu_ret"
        /\ err[t] = nil
        /\ Identity(conf[c[t]]) = Recorded(OsAccount)
        /\ pc[o] = "epu_ret"
        /\ err[o] = "ErrIO"
        /\ u[o] = OsAccount
        /\ osUser

\* C13: the step in which the first lookup of EnsurePterodactylUser fails
\* with an error other than unknown-user leaves the call at its return with
\* that error and no account, and changes no snapshot, no file, no account,
\* no group and reads no system name; the return that follows changes none
\* of them either; and a call enters the creation path only from its first
\* lookup, without an error, when the account does not exist.
C13_LookupErrorIsFatal ==
    [][\A t \in Threads :
          /\ (pc[t] = "idle" /\ pc'[t] = "epu_ret") =>
                /\ err'[t] = "ErrLookup"
                /\ u'[t] = NoUser
                /\ UNCHANGED <<conf, file, osUser, osGroup, sysName>>
          /\ (pc[t] = "epu_ret" /\ pc'[t] # "epu_ret") =>
                /\ pc'[t] = "idle"
                /\ UNCHANGED <<conf, file, osUser, osGroup>>
          /\ (pc'[t] = "epu_sysname" /\ pc[t] # "epu_sysname") =>
                /\ pc[t] = "idle"
                /\ ~osUser
                /\ err'[t] = nil
      ]_vars

\* C13 witness: a call whose first lookup failed is about to return that
\* error; nothing was created, recorded or written.
C13_Witness ==
    \E t \in Threads :
        /\ pc[t] = "epu_ret"
        /\ err[t] = "ErrLookup"
        /\ u[t] = NoUser
        /\ ~osUser
        /\ ~osGroup
        /\ conf = [s \in Snaps |-> InitConf(s)]
        /\ file = Bytes(Marshal(InitConf("A")))

\* The positions of EnsurePterodactylUser's creation path (lines 213-241).
InCreation(t) ==
    pc[t] \in {"epu_sysname", "epu_addgroup", "epu_useradd", "epu_lookup2"}

\* C14: on the creation path the system name is read first, and a failed
\* read returns the error with nothing created; on alpine the group is
\* created next, and a failed addgroup returns the error with no account
\* created; then the account is created, and a failed creation returns the
\* error with no lookup and no update of the snapshot; a successful creation
\* is followed by the second lookup, whose success leads to setSystemUser
\* and whose failure returns the error; a call returns success only with the
\* identity recorded; and every call on the creation path reaches its return.
C14_CreationPathOrder ==
    /\ [][\A t \in Threads :
             /\ (pc[t] = "epu_sysname" /\ pc'[t] # "epu_sysname") =>
                   /\ UNCHANGED <<osUser, osGroup, conf, file>>
                   /\ \/ pc'[t] = "epu_addgroup" /\ sysName'[t] = "alpine"
                      \/ pc'[t] = "epu_useradd" /\ sysName'[t] = "ubuntu"
                      \/ pc'[t] = "epu_ret" /\ err'[t] = "ErrRelease"
             /\ (pc[t] = "epu_addgroup" /\ pc'[t] # "epu_addgroup") =>
                   /\ UNCHANGED <<osUser, conf, file>>
                   /\ \/ pc'[t] = "epu_useradd" /\ ~osGroup /\ osGroup'
                      \/ /\ pc'[t] = "epu_ret"
                         /\ err'[t] = "ErrExec"
                         /\ UNCHANGED osGroup
             /\ (pc[t] = "epu_useradd" /\ pc'[t] # "epu_useradd") =>
                   /\ UNCHANGED <<conf, file>>
                   /\ \/ pc'[t] = "epu_lookup2" /\ ~osUser /\ osUser'
                      \/ /\ pc'[t] = "epu_ret"
                         /\ err'[t] = "ErrExec"
                         /\ UNCHANGED <<osUser, osGroup>>
             /\ (pc[t] = "epu_lookup2" /\ pc'[t] # "epu_lookup2") =>
                   /\ UNCHANGED <<osUser, osGroup, conf, file>>
                   /\ \/ pc'[t] = "ssu_lock" /\ u'[t] = OsAccount
                      \/ pc'[t] = "epu_ret" /\ err'[t] = "ErrLookup"
             /\ (pc[t] = "epu_ret" /\ pc'[t] # "epu_ret") =>
                   /\ pc'[t] = "idle"
                   /\ (err[t] = nil) =>
                         Identity(conf[c[t]]) = Recorded(OsAccount)
       ]_vars
    /\ \A t \in Threads : InCreation(t) ~> (pc[t] = "epu_ret")

\* C14 witness: on alpine the group exists, created by this call, and the
\* account creation has not run yet.
C14_Witness ==
    \E t \in Threads :
        /\ pc[t] = "epu_useradd"
        /\ sysName[t] = "alpine"
        /\ osGroup
        /\ ~osUser
        /\ \A o \in Threads \ {t} : ~InCreation(o)

\* The immediate children of the data directory that are directories named
\* by a canonical (lower-case, version 4, variant 8/9/a/b) UUID.
ServerDirs == {"srvA", "srvB"}

\* The owner EnsureFilePermissions gives to an entry.
SystemOwner == <<999, 998>>

\* C15: an entry has another owner than before, is at the chown, or is named
\* in a warning only if SetPermissionsOnBoot is set and the entry exists, is
\* an immediate child of the data directory, is a directory and has a
\* canonical UUIDv4 name; a changed owner is the looked-up account; and with
\* SetPermissionsOnBoot unset a call that was issued has returned nil at
\* once: nothing listed, no goroutine started, nothing counted.
C15_OnlyServerDirectoriesChowned ==
    /\ \A e \in Entries :
          (owner[e] # Root) =>
              /\ setPermissionsOnBoot
              /\ e \in ServerDirs \cap dataDir
              /\ owner[e] = SystemOwner
    /\ \A e \in Children :
          (task[e] = "chown" \/ e \in warned) =>
              (setPermissionsOnBoot /\ e \in ServerDirs \cap dataDir)
    /\ (~setPermissionsOnBoot /\ efp # "idle") =>
          /\ efp = "done"
          /\ efpErr = nil
          /\ files = <<>>
          /\ wg = 0
          /\ \A e \in Children : task[e] = "none"

\* C15 witness: the call has returned; the server directory is chowned, and
\* the file with a UUID name, the directories with an upper-case and a
\* version-1 UUID name and the directory inside the server directory have
\* been left alone.
C15_Witness ==
    /\ efp = "done"
    /\ efpErr = nil
    /\ dataDir = {"srvA", "file", "upper", "v1", "nested"}
    /\ owner["srvA"] = SystemOwner
    /\ \A e \in {"file", "upper", "v1"} : task[e] = "done" /\ owner[e] = Root
    /\ owner["nested"] = Root

\* The server directory's chown has run: it succeeded, or it failed and was
\* logged, never both.
ChownAttempted(e) == (owner[e] = SystemOwner) # (e \in warned)

\* C16 as stated: a call that has returned has returned nil or the error of
\* listing the data directory.
C16_OnlyListingErrorSurfaced ==
    (efp = "done") => efpErr \in {nil, "ErrReadDir"}

\* C16 as amended: a call that has returned has returned nil, the error of
\* listing the data directory or the error of looking up the account; an
\* error is returned before any goroutine is started and any owner changed;
\* once the listing and the lookup have succeeded the call returns nil,
\* whatever the chowns did; and when it has returned nil with the feature
\* set, the chown of every server directory has run, failed siblings or not,
\* and nothing but server directories has been touched.
C16_ErrorsOnlyBeforeTasksStart ==
    (efp = "done") =>
        /\ efpErr \in {nil, "ErrReadDir", "ErrLookup"}
        /\ (efpErr # nil) =>
              /\ \A e \in Children : task[e] = "none"
              /\ \A e \in Entries : owner[e] = Root
              /\ warned = {}
        /\ (su # NoUser) => efpErr = nil
        /\ (efpErr = nil /\ setPermissionsOnBoot) =>
              /\ su = OsAccount
              /\ \A e \in ServerDirs \cap dataDir : ChownAttempted(e)
              /\ \A e \in Entries \ ServerDirs :
                    owner[e] = Root /\ e \notin warned

\* C16 witness: the call has returned nil although the chown of one server
\* directory failed, and the other server directory is chowned.
C16_Witness ==
    /\ efp = "done"
    /\ efpErr = nil
    /\ warned = {"srvB"}
    /\ owner["srvB"] = Root
    /\ owner["srvA"] = SystemOwner

\* C17: when EnsureFilePermissions has returned, no goroutine it started is
\* still before or at its chown or before its Done, and the counter is zero;
\* when it has returned nil with the feature set, the goroutine of every
\* listed entry has finished, and for a server directory that means its
\* chown has succeeded or has failed and been logged.
C17_ReturnIsBarrier ==
    (efp = "done") =>
        /\ \A e \in Children : task[e] \in {"none", "done"}
        /\ wg = 0
        /\ (efpErr = nil /\ setPermissionsOnBoot) =>
              /\ files = ReadDir(dataDir)
              /\ \A e \in Children \cap dataDir : task[e] = "done"
        /\ \A e \in ServerDirs : (task[e] = "done") => ChownAttempted(e)

\* C17 witness: the call has returned after three goroutines have finished:
\* one chown succeeded, one failed, one entry was skipped.
C17_Witness ==
    /\ efp = "done"
    /\ efpErr = nil
    /\ task["srvA"] = "done"
    /\ task["srvB"] = "done"
    /\ task["file"] = "done"
    /\ owner["srvA"] = SystemOwner
    /\ "srvB" \in warned

\* The locks goroutine t holds.
HoldsMutex(t) == Mutex.w = t \/ t \in Mutex.r
HoldsRwLock(t) == \E s \in Snaps : rwLock[s] = t
HoldsWriteLock(t) == \E s \in Snaps : writeLock[s] = t
HoldsNothing(t) == ~HoldsMutex(t) /\ ~HoldsRwLock(t) /\ ~HoldsWriteLock(t)

\* The goroutine is at a statement that acquires a lock.
AtLock(t) ==
    pc[t] \in {"set_lock", "set_wait", "get_rlock", "jwt_rlock", "wtd_lock",
               "ssu_lock"}

\* C18: whenever every goroutine with an unfinished call is at a statement
\* that acquires a lock, one of them can acquire it; a goroutine that has no
\* call running, or waits for the Mutex or for a snapshot's own lock, holds
\* no lock; a goroutine holds the store's Mutex only inside Set, Get or
\* GetJwtAlgorithm and then no other lock; it holds a snapshot's own lock
\* only inside setSystemUser, of its own snapshot; it holds a writeLock only
\* inside WriteToDisk, of its own snapshot; and a goroutine that waits for a
\* writeLock holds at most its snapshot's own lock, taken by setSystemUser.
C18_NoDeadlock ==
    /\ (/\ \E t \in Threads : pc[t] # "idle"
        /\ \A t \in Threads : pc[t] # "idle" => AtLock(t)) =>
          \E t \in Threads : AtLock(t) /\ ENABLED Proceed(t)
    /\ \A t \in Threads :
          /\ (pc[t] \in {"idle", "set_lock", "get_rlock", "jwt_rlock",
                         "ssu_lock"}) => HoldsNothing(t)
          /\ HoldsMutex(t) =>
                /\ pc[t] \in {"set_wait", "set_cmp", "set_pub", "set_unlock",
                              "get_runlock", "jwt_runlock"}
                /\ ~HoldsRwLock(t)
                /\ ~HoldsWriteLock(t)
          /\ \A s \in Snaps :
                /\ (rwLock[s] = t) =>
                      /\ s = c[t]
                      /\ pc[t] \in {"ssu_name", "ssu_uid", "ssu_gid", "ssu_write"}
                            \/ caller[t] = "setSystemUser"
                /\ (writeLock[s] = t) =>
                      /\ s = c[t]
                      /\ pc[t] \in {"wtd_open", "wtd_write", "wtd_unlock"}
          /\ (pc[t] = "wtd_lock") =>
                /\ ~HoldsMutex(t)
                /\ ~HoldsWriteLock(t)
                /\ HoldsRwLock(t) => caller[t] = "setSystemUser"

\* C18 witness: a setSystemUser holds its snapshot's lock and, inside
\* WriteToDisk, the writeLock, while a direct WriteToDisk of the same
\* snapshot waits for that writeLock.
C18_Witness ==
    \E t, o \in Threads :
        /\ pc[t] = "wtd_write"
        /\ caller[t] = "setSystemUser"
        /\ rwLock[c[t]] = t
        /\ writeLock[c[t]] = t
        /\ pc[o] = "wtd_lock"
        /\ caller[o] = "direct"
        /\ c[o] = c[t]

\* C19 as stated: the document a WriteToDisk has serialized carries the
\* account name, uid and gid its snapshot had before any update or the ones
\* of the looked-up account, all three from the same identity.
C19_NoTornIdentity ==
    \A t \in Threads :
        (b[t] # <<>>) =>
            DocIdentity(b[t][1].doc) \in
                {Identity(InitConf(c[t])), Recorded(OsAccount)}

\* The number of wg.Add(1) executed, the goroutines started, and the
\* goroutines that have executed their wg.Done().
Registered == idx + (IF efp = "go" THEN 1 ELSE 0)
Started == {e \in Children : task[e] # "none"}
Signalled == {e \in Children : task[e] = "done"}

\* C20: the counter of the wait group is never negative and always the
\* number of registrations minus the number of goroutines that have signalled
\* completion; the goroutines started are those of the entries the loop has
\* gone through, one each, every one registered before it was started; and
\* with every goroutine scheduled and every chown returning, the call of
\* EnsureFilePermissions returns.
C20_WaitGroupBalancedAndTerminates ==
    /\ [](/\ wg >= 0
          /\ wg = Registered - Cardinality(Signalled)
          /\ Started = {files[i] : i \in 1..idx}
          /\ Cardinality(Started) = idx
          /\ Cardinality(Started) <= Registered)
    /\ <>(efp = "done")

\* C20 witness: the call has returned with the counter at zero after four
\* goroutines have finished, one on each path: a file skipped, a directory
\* with a non-matching name skipped, a chown that succeeded and one that
\* failed.
C20_Witness ==
    /\ efp = "done"
    /\ wg = 0
    /\ task["file"] = "done"
    /\ task["upper"] = "done"
    /\ task["srvA"] = "done"
    /\ owner["srvA"] = SystemOwner
    /\ task["srvB"] = "done"
    /\ "srvB" \in warned

====
